---- MODULE Spec2Model ----
(***************************************************************************)
(* Model of src/platforms/rcore_comma.c: the DRM/GBM swapchain             *)
(* (InitPlatform, SwapScreenBuffer, ClosePlatform) and the multi-touch     *)
(* aggregator (PollInputEvents).                                           *)
(*                                                                         *)
(* The program is single threaded.  InitPlatform, SwapScreenBuffer and     *)
(* ClosePlatform are one action each; the outcome of every library call    *)
(* they make is an input of the action.  PollInputEvents is a loop around  *)
(* read(): its prologue, each iteration of the loop (one record returned   *)
(* by read) and its epilogue are the steps PollBegin, ReadEvent, PollEnd,  *)
(* and pc is the position of the call.                                     *)
(***************************************************************************)
EXTENDS Integers, Sequences, FiniteSets, TLC

VARIABLES
    platform,     \* static PlatformData platform
    CORE,         \* the fields of the global CoreData CORE this file uses
    slot,         \* static int slot of PollInputEvents
    pc,           \* position of PollInputEvents: "idle" | "drain"
    phase,        \* lifecycle: "start" | "ready" | "failed" | "closed" | "closed_failed"
    locked,       \* gbm surface: the buffers locked by the program (not in the free pool)
    userData,     \* gbm: the user data of each buffer (its cached framebuffer id, 0 = none)
    liveFbs,      \* drm: the framebuffer ids that exist
    live,         \* the gbm/egl objects that exist
    openFds,      \* the open file descriptors of the process
    owned,        \* the descriptors the platform layer opened itself
    calls,        \* the library calls made by the handler that ran last
    last,         \* the handler that ran last
    power,        \* turn_screen_on and the open_with_retry call it is in
    obs           \* observer of the touch stream (see the observers below)

progvars == <<platform, CORE, slot, pc, phase, locked, userData, liveFbs,
              live, openFds, owned, calls, last, power>>
vars == <<platform, CORE, slot, pc, phase, locked, userData, liveFbs,
          live, openFds, owned, calls, last, power, obs>>

----------------------------------------------------------------------------
(* Bounds of the model *)

\* slots of the touch table (MAX_TOUCH_POINTS of the build), scaled down
MAX_TOUCH_POINTS == 2
\* CORE.Window.screen.width / height: the display mode found by init_drm
ScreenWidth == 2
ScreenHeight == 3
\* buffers of the gbm surface
NumBuffers == 2
\* framebuffer ids the kernel hands out
MaxFbId == 2
\* the largest value the max_brightness file holds
MaxBrightness == 2

----------------------------------------------------------------------------
(* Values *)

NULL == 0
EGL_NO_DISPLAY == 0
EGL_NO_SURFACE == 0
EGL_NO_CONTEXT == 0
\* a handle returned by a successful create call
HANDLE == 1
\* descriptors: 0, 1, 2 are the standard streams of the process
DRM_FD == 3
TOUCH_FD == 4
StdFds == {0, 1, 2}

Slots == 0 .. (MAX_TOUCH_POINTS - 1)
Buffers == 1 .. NumBuffers
FbIds == 1 .. MaxFbId

FINGER_STATE_REMOVED == "REMOVED"
FINGER_STATE_REMOVING == "REMOVING"
FINGER_STATE_TOUCHING == "TOUCHING"

\* A library call on a handle: ok tells whether the handle was, when the call was
\* made, one the program had created (locked, opened) and not yet given back.
Call(op, arg, ok) == [op |-> op, arg |-> arg, ok |-> ok]

\* platform = { 0 }
ZeroFinger == [state |-> FINGER_STATE_REMOVED, x |-> 0, y |-> 0, resetNextFrame |-> FALSE]

ZeroPlatform ==
    [ egl |-> [display |-> EGL_NO_DISPLAY, surface |-> EGL_NO_SURFACE,
               context |-> EGL_NO_CONTEXT],
      touch |-> [fingers |-> [i \in Slots |-> ZeroFinger], fd |-> 0],
      drm |-> [fd |-> 0],
      gbm |-> [device |-> NULL, surface |-> NULL, current_bo |-> NULL,
               next_bo |-> NULL, current_fb |-> 0, next_fb |-> 0],
      canonical_zero |-> FALSE ]

\* CORE is a zero-initialised global
ZeroCORE ==
    [ Window |-> [ready |-> FALSE, screen |-> [width |-> 0, height |-> 0],
                  color_correction_shader_src |-> NULL],
      Input |-> [ Touch |-> [ currentTouchState |-> [i \in Slots |-> 0],
                              previousTouchState |-> [i \in Slots |-> 0],
                              position |-> [i \in Slots |-> [x |-> 0, y |-> 0]],
                              pointCount |-> 0 ],
                  Mouse |-> [ currentPosition |-> [x |-> 0, y |-> 0],
                              previousPosition |-> [x |-> 0, y |-> 0] ] ] ]

NoEvent == [type |-> "NONE", code |-> "NONE", value |-> 0]

ZeroObs == << >>

\* turn_screen_on is not executing. pc: "idle", "loop" (open_with_retry is at its
\* loop test), "sleep" (fopen has failed), "returned" (open_with_retry has returned
\* f), "done" (turn_screen_on has returned ret). file: the index of the file being
\* opened, waited: the local of open_with_retry, attempts and slept: the fopen calls
\* made and the milliseconds slept by the open_with_retry call, brightness: what was
\* written to the brightness file (-1: nothing).
ZeroPower ==
    [ pc |-> "idle", file |-> 0, waited |-> 0, attempts |-> 0, slept |-> 0,
      f |-> "none", max_brightness |-> 0, brightness |-> -1, ret |-> 0 ]

\* The state the functions below transform: the program's data and the libraries'.
World ==
    [ platform |-> platform, CORE |-> CORE, locked |-> locked, userData |-> userData,
      liveFbs |-> liveFbs, live |-> live, openFds |-> openFds, owned |-> owned,
      calls |-> calls ]

Commit(w) ==
    /\ platform' = w.platform
    /\ CORE' = w.CORE
    /\ locked' = w.locked
    /\ userData' = w.userData
    /\ liveFbs' = w.liveFbs
    /\ live' = w.live
    /\ openFds' = w.openFds
    /\ owned' = w.owned
    /\ calls' = w.calls

Ret(r, w) == [ret |-> r, w |-> w]

Log(w, op, arg, ok) == [w EXCEPT !.calls = Append(@, Call(op, arg, ok))]

\* The world at process start: platform and CORE are zero, no buffer is locked, no
\* framebuffer exists, the standard streams are open.
ZeroWorld ==
    [ platform |-> ZeroPlatform, CORE |-> ZeroCORE, locked |-> {},
      userData |-> [b \in Buffers |-> 0], liveFbs |-> {}, live |-> {},
      openFds |-> StdFds, owned |-> {}, calls |-> << >> ]

\* the variables hold the world w
Is(w) ==
    /\ platform = w.platform
    /\ CORE = w.CORE
    /\ locked = w.locked
    /\ userData = w.userData
    /\ liveFbs = w.liveFbs
    /\ live = w.live
    /\ openFds = w.openFds
    /\ owned = w.owned
    /\ calls = w.calls

Init ==
    /\ Is(ZeroWorld)
    /\ slot = 0
    /\ pc = "idle"
    /\ phase = "start"
    /\ last = "none"
    /\ power = ZeroPower
    /\ obs = ZeroObs

----------------------------------------------------------------------------
(* Initialisation *)

\* init_drm: f names the call that fails ("none": all succeed).
\* "no_fd": DRM_FD is malformed, or socket()/connect() fails: drm.fd is not assigned.
\* "bad_fd": open() or recv_fd() returns -1.
DrmFailures == {"none", "no_fd", "bad_fd", "not_master", "no_connector"}

init_drm(w, f) ==
    IF f = "no_fd" THEN Ret(-1, w)
    ELSE IF f = "bad_fd" THEN Ret(-1, [w EXCEPT !.platform.drm.fd = -1])
    ELSE LET w1 == [w EXCEPT !.platform.drm.fd = DRM_FD,
                             !.openFds = @ \cup {DRM_FD},
                             !.owned = @ \cup {DRM_FD}]
         IN  IF f \in {"not_master", "no_connector"} THEN Ret(-1, w1) ELSE Ret(0, w1)

\* init_egl: the calls in the order the function makes them; k is the index of the
\* call that fails (0: none).
EglCalls ==
    << "gbm_create_device", "eglGetDisplay", "eglInitialize", "eglGetConfigs",
       "eglChooseConfig", "config", "gbm_surface_create", "eglCreateWindowSurface",
       "eglCreateContext", "eglMakeCurrent", "eglSwapInterval" >>

EglIndex(name) == CHOOSE i \in 1 .. Len(EglCalls) : EglCalls[i] = name

init_egl(w, k) ==
    LET done(name) == k = 0 \/ EglIndex(name) < k
        p == w.platform
        p1 == [p EXCEPT
                 !.gbm.device = IF done("gbm_create_device") THEN HANDLE ELSE NULL,
                 !.egl.display = IF done("eglGetDisplay") THEN HANDLE ELSE EGL_NO_DISPLAY,
                 !.gbm.surface = IF done("gbm_surface_create") THEN HANDLE ELSE NULL,
                 !.egl.surface = IF done("eglCreateWindowSurface") THEN HANDLE
                                 ELSE EGL_NO_SURFACE,
                 !.egl.context = IF done("eglCreateContext") THEN HANDLE
                                 ELSE EGL_NO_CONTEXT]
        made == (IF done("gbm_create_device") THEN {"gbm_device"} ELSE {})
                \cup (IF done("eglGetDisplay") THEN {"egl_display"} ELSE {})
                \cup (IF done("gbm_surface_create") THEN {"gbm_surface"} ELSE {})
                \cup (IF done("eglCreateWindowSurface") THEN {"egl_surface"} ELSE {})
                \cup (IF done("eglCreateContext") THEN {"egl_context"} ELSE {})
    IN  Ret(IF k = 0 THEN 0 ELSE -1, [w EXCEPT !.platform = p1, !.live = @ \cup made])

\* init_touch: openOk is the result of open(); som is the content of the som_id
\* file: "absent", "unparsable", or the integer fscanf read. The log holds fopen
\* (arg 1: a stream, 0: NULL) and fscanf (arg: the number of items it converted).
SomIds == {"absent", "unparsable", "0", "1"}

InitFinger == [state |-> FINGER_STATE_REMOVED, x |-> -1, y |-> -1, resetNextFrame |-> FALSE]

init_touch(w, openOk, som) ==
    IF ~openOk THEN Ret(-1, [w EXCEPT !.platform.touch.fd = -1])
    ELSE LET w1 == [w EXCEPT !.platform.touch.fd = TOUCH_FD,
                             !.openFds = @ \cup {TOUCH_FD},
                             !.owned = @ \cup {TOUCH_FD}]
             w2 == Log(w1, "fopen_som_id", IF som = "absent" THEN 0 ELSE 1, TRUE)
             w3 == IF som = "absent" THEN w2
                   ELSE Log(w2, "fscanf_som_id", IF som = "unparsable" THEN 0 ELSE 1, TRUE)
         IN  IF som = "unparsable" THEN Ret(-1, w3)
             ELSE Ret(0, [w3 EXCEPT
                     !.platform.canonical_zero = IF som = "absent" THEN FALSE ELSE som = "1",
                     !.platform.touch.fingers = [i \in Slots |-> InitFinger],
                     !.CORE.Input.Touch.currentTouchState[0] = 0,
                     !.CORE.Input.Touch.previousTouchState[0] = 0,
                     !.CORE.Input.Mouse.currentPosition = [x |-> -1, y |-> -1],
                     !.CORE.Input.Mouse.previousPosition = [x |-> -1, y |-> -1]])

\* gbm_surface_lock_front_buffer: bo is the buffer the surface hands out (one that is
\* not locked), or NULL.
LockFrontBuffer(w, bo) ==
    IF bo = NULL THEN Log(w, "lock", NULL, TRUE)
    ELSE Log([w EXCEPT !.locked = @ \cup {bo}], "lock", bo, TRUE)

\* gbm_surface_release_buffer
ReleaseBuffer(w, bo) ==
    Log([w EXCEPT !.locked = @ \ {bo}], "release", bo, bo \in w.locked)

\* drmModeRmFB
RmFB(w, fb) == Log([w EXCEPT !.liveFbs = @ \ {fb}], "rmfb", fb, fb \in w.liveFbs)

\* drmModeSetCrtc, drmModePageFlip, drmWaitVBlank
SetCrtc(w, fb) == Log(w, "setcrtc", fb, fb \in w.liveFbs)
PageFlip(w, fb) == Log(w, "pageflip", fb, fb \in w.liveFbs)
WaitVBlank(w) == Log(w, "vblank", 0, TRUE)

\* eglDestroySurface, eglDestroyContext, eglTerminate, gbm_device_destroy
Destroy(w, obj) == Log([w EXCEPT !.live = @ \ {obj}], obj, HANDLE, obj \in w.live)

\* close
Close(w, fd) ==
    Log([w EXCEPT !.openFds = @ \ {fd}, !.owned = @ \ {fd}], "close", fd,
        fd \in w.owned)

\* get_or_create_fb_for_bo: addOk and id are the result of drmModeAddFB2 (id is an
\* id that is not in use). The result carries *out_fb as fb.
get_or_create_fb_for_bo(w, bo, addOk, id) ==
    IF w.userData[bo] # 0 THEN [ret |-> 0, fb |-> w.userData[bo], w |-> w]
    ELSE IF ~addOk \/ id \in w.liveFbs THEN [ret |-> -1, fb |-> 0, w |-> w]
    ELSE [ret |-> 0, fb |-> id,
          w |-> Log([w EXCEPT !.userData[bo] = id, !.liveFbs = @ \cup {id}], "addfb", id, TRUE)]

\* the backlight control files, in the order turn_screen_on opens them
BacklightFiles == << "bl_power", "max_brightness", "brightness" >>

\* turn_screen_on: bl is the index of the first file open_with_retry fails to open
\* (0: all three open). The log holds the open_with_retry calls (arg: the index of
\* the file, ok: a stream was returned).
turn_screen_on(w, bl) ==
    LET tried == IF bl = 0 THEN Len(BacklightFiles) ELSE bl
        opens == [i \in 1 .. tried |-> Call("open_with_retry", i, i # bl)]
    IN  Ret(IF bl = 0 THEN 0 ELSE -1, [w EXCEPT !.calls = @ \o opens])

\* drmModeGetCrtc (arg: 2 * (mode_valid != 0) + (buffer_id != 0))
GetCrtc(w, modeValid, bufferBound) ==
    Log(w, "getcrtc", (IF modeValid THEN 2 ELSE 0) + (IF bufferBound THEN 1 ELSE 0), TRUE)

\* mutant of init_screen: the mode is set whatever the crtc reports
init_screen_AlwaysModeSet(w, in) ==
    LET w1 == [LockFrontBuffer(w, in.bo) EXCEPT !.platform.gbm.current_bo = in.bo]
    IN  IF in.bo = NULL THEN Ret(-1, w1)
        ELSE LET r == get_or_create_fb_for_bo(w1, in.bo, in.addOk, in.id)
                 w2 == [r.w EXCEPT !.platform.gbm.current_fb = r.fb]
             IN  IF r.ret # 0 THEN Ret(-1, r.w)
                 ELSE LET w3 == GetCrtc(w2, in.modeValid, in.bufferBound)
                          w4 == SetCrtc(w3, r.fb)
                      IN  IF ~in.setCrtcOk THEN Ret(-1, w4)
                          ELSE turn_screen_on(w4, in.bl)

\* init_screen. in.bo: the buffer gbm_surface_lock_front_buffer returns; in.addOk,
\* in.id: the result of drmModeAddFB2; in.modeValid, in.bufferBound: the crtc
\* reports a valid mode, a framebuffer; in.setCrtcOk: drmModeSetCrtc; in.bl:
\* turn_screen_on.
init_screen(w, in) ==
    LET w1 == [LockFrontBuffer(w, in.bo) EXCEPT !.platform.gbm.current_bo = in.bo]
    IN  IF in.bo = NULL THEN Ret(-1, w1)
        ELSE LET r == get_or_create_fb_for_bo(w1, in.bo, in.addOk, in.id)
                 w2 == [r.w EXCEPT !.platform.gbm.current_fb = r.fb]
             IN  IF r.ret # 0 THEN Ret(-1, r.w)
                 ELSE LET bound == in.modeValid /\ in.bufferBound
                          w3 == GetCrtc(w2, in.modeValid, in.bufferBound)
                          w4 == IF bound THEN w3 ELSE SetCrtc(w3, r.fb)
                      IN  IF ~bound /\ ~in.setCrtcOk THEN Ret(-1, w4)
                          ELSE turn_screen_on(w4, in.bl)

InitInputs ==
    [ drm : DrmFailures, egl : 0 .. Len(EglCalls), touchOpen : BOOLEAN, som : SomIds,
      bo : Buffers \cup {NULL}, addOk : BOOLEAN, id : FbIds, modeValid : BOOLEAN,
      bufferBound : BOOLEAN, setCrtcOk : BOOLEAN, bl : 0 .. Len(BacklightFiles),
      ccOk : BOOLEAN ]

\* The stages of InitPlatform, in the order it calls them; the first four are fatal.
FatalStages == << "init_drm", "init_egl", "init_touch", "init_screen" >>
StageNames == {FatalStages[i] : i \in DOMAIN FatalStages} \cup {"init_color_correction"}

\* A stage has returned r: the log holds the stage and its status.
Stage(name, r) == Ret(r.ret, Log(r.w, name, r.ret, r.ret = 0))

\* init_color_correction: ccOk is false when malloc, read_correction_values or
\* sprintf fails; the shader source is assigned only on success.
init_color_correction(w, ccOk) ==
    IF ccOk THEN Ret(0, [w EXCEPT !.CORE.Window.color_correction_shader_src = HANDLE])
    ELSE Ret(-1, w)

\* InitPlatform that does not test the status of init_touch.
InitPlatformFn_IgnoresTouchFailure(w, in) ==
    LET r1 == Stage("init_drm", init_drm(w, in.drm))
    IN  IF r1.ret # 0 THEN Ret(-1, r1.w)
        ELSE
        LET w1 == [r1.w EXCEPT !.CORE.Window.screen =
                                  [width |-> ScreenWidth, height |-> ScreenHeight]]
            r2 == Stage("init_egl", init_egl(w1, in.egl))
        IN  IF r2.ret # 0 THEN Ret(-1, r2.w)
            ELSE
            LET r3 == Stage("init_touch", init_touch(r2.w, in.touchOpen, in.som))
                r4 == Stage("init_screen", init_screen(r3.w, in))
            IN  IF r4.ret # 0 THEN Ret(-1, r4.w)
                ELSE
                LET r5 == Stage("init_color_correction",
                                init_color_correction(r4.w, in.ccOk))
                IN  Ret(0, [r5.w EXCEPT !.CORE.Window.ready = TRUE])

\* InitPlatform as a function of the world: the status it returns and the world it
\* leaves. The log holds each stage after the calls the stage made.
InitPlatformFn(w, in) ==
    LET r1 == Stage("init_drm", init_drm(w, in.drm))
    IN  IF r1.ret # 0 THEN Ret(-1, r1.w)
        ELSE
        LET w1 == [r1.w EXCEPT !.CORE.Window.screen =
                                  [width |-> ScreenWidth, height |-> ScreenHeight]]
            r2 == Stage("init_egl", init_egl(w1, in.egl))
        IN  IF r2.ret # 0 THEN Ret(-1, r2.w)
            ELSE
            LET r3 == Stage("init_touch", init_touch(r2.w, in.touchOpen, in.som))
            IN  IF r3.ret # 0 THEN Ret(-1, r3.w)
                ELSE
                LET r4 == Stage("init_screen", init_screen(r3.w, in))
                IN  IF r4.ret # 0 THEN Ret(-1, r4.w)
                    ELSE
                    LET r5 == Stage("init_color_correction",
                                    init_color_correction(r4.w, in.ccOk))
                    IN  Ret(0, [r5.w EXCEPT !.CORE.Window.ready = TRUE])

InitPlatform ==
    /\ phase = "start"
    /\ \E in \in InitInputs :
          LET r == InitPlatformFn([World EXCEPT !.calls = << >>], in)
          IN  /\ Commit(r.w)
              /\ phase' = IF r.ret = 0 THEN "ready" ELSE "failed"
    /\ last' = "InitPlatform"
    /\ UNCHANGED <<slot, pc, power, obs>>

----------------------------------------------------------------------------
(* Presentation *)

PresentInputs == [bo : Buffers \cup {NULL}, addOk : BOOLEAN, id : FbIds, flipOk : BOOLEAN]

\* mutant of PresentFlipFailed: the displayed buffer is released instead of the
\* acquired one
PresentFlipFailed_ReleaseCurrent(w) ==
    LET w1 == RmFB(w, w.platform.gbm.next_fb)
        w2 == ReleaseBuffer(w1, w.platform.gbm.current_bo)
    IN  [w2 EXCEPT !.platform.gbm.next_bo = NULL, !.platform.gbm.next_fb = 0]

\* mutant of PresentFlipFailed: the acquired buffer is not released
PresentFlipFailed_NoRelease(w) ==
    LET w1 == RmFB(w, w.platform.gbm.next_fb)
    IN  [w1 EXCEPT !.platform.gbm.next_bo = NULL, !.platform.gbm.next_fb = 0]

\* SwapScreenBuffer, the page flip failed
PresentFlipFailed(w) ==
    LET w1 == RmFB(w, w.platform.gbm.next_fb)
        w2 == ReleaseBuffer(w1, w.platform.gbm.next_bo)
    IN  [w2 EXCEPT !.platform.gbm.next_bo = NULL, !.platform.gbm.next_fb = 0]

\* mutant of PresentPromote: the displayed buffer is released before the wait
PresentPromote_ReleaseFirst(w) ==
    LET w1 == IF w.platform.gbm.current_bo # NULL
              THEN ReleaseBuffer(w, w.platform.gbm.current_bo)
              ELSE w
        w2 == WaitVBlank(w1)
    IN  [w2 EXCEPT !.platform.gbm.current_bo = w2.platform.gbm.next_bo]

\* mutant of PresentPromote: next is not promoted to current
PresentPromote_NoPromote(w) ==
    LET w1 == WaitVBlank(w)
    IN  IF w1.platform.gbm.current_bo # NULL
        THEN ReleaseBuffer(w1, w1.platform.gbm.current_bo)
        ELSE w1

\* SwapScreenBuffer, after the page flip was queued
PresentPromote(w) ==
    LET w1 == WaitVBlank(w)
        w2 == IF w1.platform.gbm.current_bo # NULL
              THEN ReleaseBuffer(w1, w1.platform.gbm.current_bo)
              ELSE w1
    IN  [w2 EXCEPT !.platform.gbm.current_bo = w2.platform.gbm.next_bo]

\* SwapScreenBuffer. in.bo: the buffer gbm_surface_lock_front_buffer returns;
\* in.addOk, in.id: the result of drmModeAddFB2; in.flipOk: drmModePageFlip (which
\* fails in any case on an id that is no framebuffer).
SwapScreenBufferFn(w, in) ==
    LET w1 == [LockFrontBuffer(w, in.bo) EXCEPT !.platform.gbm.next_bo = in.bo]
    IN  IF in.bo = NULL THEN w1
        ELSE LET r == get_or_create_fb_for_bo(w1, in.bo, in.addOk, in.id)
             IN  IF r.ret # 0
                 THEN [ReleaseBuffer(r.w, in.bo) EXCEPT !.platform.gbm.next_bo = NULL]
                 ELSE LET w2 == [r.w EXCEPT !.platform.gbm.next_fb = r.fb]
                      IN  IF ~(in.flipOk /\ r.fb \in w2.liveFbs)
                          THEN PresentFlipFailed(w2)
                          ELSE PresentPromote(PageFlip(w2, r.fb))

SwapScreenBuffer ==
    /\ phase = "ready"
    /\ \E in \in PresentInputs :
          /\ in.bo \notin locked
          /\ Commit(SwapScreenBufferFn([World EXCEPT !.calls = << >>], in))
    /\ last' = "SwapScreenBuffer"
    /\ UNCHANGED <<slot, pc, phase, power, obs>>

----------------------------------------------------------------------------
(* Shutdown *)

ClosePlatformFn(w) ==
    LET p == w.platform
        w1 == [w EXCEPT !.CORE.Window.ready = FALSE]
        w2 == IF p.egl.display # EGL_NO_DISPLAY
              THEN LET a == IF p.egl.surface # EGL_NO_SURFACE
                            THEN [Destroy(w1, "egl_surface") EXCEPT
                                     !.platform.egl.surface = EGL_NO_SURFACE]
                            ELSE w1
                       b == IF p.egl.context # EGL_NO_CONTEXT
                            THEN [Destroy(a, "egl_context") EXCEPT
                                     !.platform.egl.context = EGL_NO_CONTEXT]
                            ELSE a
                   IN  [Destroy(b, "egl_display") EXCEPT
                           !.platform.egl.display = EGL_NO_DISPLAY]
              ELSE w1
        w3 == IF p.gbm.surface # NULL /\ p.gbm.next_bo # NULL
              THEN ReleaseBuffer(w2, p.gbm.next_bo)
              ELSE w2
        w4 == IF p.gbm.device # NULL
              THEN [Destroy(w3, "gbm_device") EXCEPT !.platform.gbm.device = NULL]
              ELSE w3
    IN  Close(w4, p.touch.fd)

ClosePlatform ==
    /\ phase \in {"ready", "failed"}
    /\ pc = "idle"
    /\ Commit(ClosePlatformFn([World EXCEPT !.calls = << >>]))
    /\ phase' = IF phase = "ready" THEN "closed" ELSE "closed_failed"
    /\ last' = "ClosePlatform"
    /\ UNCHANGED <<slot, pc, power, obs>>

NextLife == InitPlatform \/ SwapScreenBuffer \/ ClosePlatform

\* The lifecycle of the platform layer: initialisation, presents, shutdown.
Spec == Init /\ [][NextLife]_vars

----------------------------------------------------------------------------
(* Touch input: PollInputEvents *)

\* struct input_event as this file reads it. EV_KEY stands for every type the
\* handler ignores, ABS_OTHER for every EV_ABS code it ignores.
Ev(type, code, value) == [type |-> type, code |-> code, value |-> value]
EvSyn == Ev("EV_SYN", "SYN_REPORT", 0)
EvSlot(s) == Ev("EV_ABS", "ABS_MT_SLOT", s)
\* ABS_MT_TRACKING_ID: -1 ends the contact, any other value is the id of a contact
EvEnd == Ev("EV_ABS", "ABS_MT_TRACKING_ID", -1)
EvBegin == Ev("EV_ABS", "ABS_MT_TRACKING_ID", 1)
EvPosX(v) == Ev("EV_ABS", "ABS_MT_POSITION_X", v)
EvPosY(v) == Ev("EV_ABS", "ABS_MT_POSITION_Y", v)
EvOther == Ev("EV_KEY", "BTN_TOUCH", 1)

\* bool used as an int
B2I(b) == IF b THEN 1 ELSE 0

\* mutant of TransformY: the orientation is ignored
TransformY_NoInvert(canonical_zero, height, value) == value

\* fingers[slot].y for a raw ABS_MT_POSITION_X value. The C expression mixes int and
\* unsigned int; for the values of the model nothing wraps and it is this integer.
TransformY(canonical_zero, height, value) ==
    (1 - B2I(canonical_zero)) * (height - value) + (B2I(canonical_zero) * value)

\* mutant of TransformX: the two orientations exchanged
TransformX_Exchanged(canonical_zero, width, value) ==
    (1 - B2I(canonical_zero)) * (width - value) + (B2I(canonical_zero) * value)

\* fingers[slot].x for a raw ABS_MT_POSITION_Y value
TransformX(canonical_zero, width, value) ==
    B2I(canonical_zero) * (width - value) + ((1 - B2I(canonical_zero)) * value)

\* mutant of PollPrologue: every slot is cleared, marked or not
PollPrologue_ClearsAll(w) ==
    [w EXCEPT
       !.CORE.Input.Touch.previousTouchState = w.CORE.Input.Touch.currentTouchState,
       !.CORE.Input.Touch.currentTouchState = [i \in Slots |-> 0],
       !.platform.touch.fingers =
           [i \in Slots |-> [w.platform.touch.fingers[i] EXCEPT !.resetNextFrame = FALSE]],
       !.CORE.Input.Mouse.previousPosition = w.CORE.Input.Mouse.currentPosition,
       !.CORE.Input.Touch.pointCount = 0]

\* mutant of PollPrologue: the previous snapshot is taken after the forced clear
PollPrologue_CopiesAfterClear(w) ==
    LET cleared == [i \in Slots |-> IF w.platform.touch.fingers[i].resetNextFrame THEN 0
                                    ELSE w.CORE.Input.Touch.currentTouchState[i]]
    IN  [w EXCEPT
           !.CORE.Input.Touch.previousTouchState = cleared,
           !.CORE.Input.Touch.currentTouchState = cleared,
           !.platform.touch.fingers =
               [i \in Slots |-> [w.platform.touch.fingers[i] EXCEPT !.resetNextFrame = FALSE]],
           !.CORE.Input.Mouse.previousPosition = w.CORE.Input.Mouse.currentPosition,
           !.CORE.Input.Touch.pointCount = 0]

\* mutant of PollPrologue: the point count is not reset
PollPrologue_KeepsCount(w) ==
    [w EXCEPT
       !.CORE.Input.Touch.previousTouchState = w.CORE.Input.Touch.currentTouchState,
       !.CORE.Input.Touch.currentTouchState =
           [i \in Slots |-> IF w.platform.touch.fingers[i].resetNextFrame THEN 0
                            ELSE w.CORE.Input.Touch.currentTouchState[i]],
       !.platform.touch.fingers =
           [i \in Slots |-> [w.platform.touch.fingers[i] EXCEPT !.resetNextFrame = FALSE]],
       !.CORE.Input.Mouse.previousPosition = w.CORE.Input.Mouse.currentPosition]

\* mutant of PollPrologue: the slots marked resetNextFrame are not cleared
PollPrologue_NoForcedClear(w) ==
    [w EXCEPT
       !.CORE.Input.Touch.previousTouchState = w.CORE.Input.Touch.currentTouchState,
       !.platform.touch.fingers =
           [i \in Slots |-> [w.platform.touch.fingers[i] EXCEPT !.resetNextFrame = FALSE]],
       !.CORE.Input.Mouse.previousPosition = w.CORE.Input.Mouse.currentPosition,
       !.CORE.Input.Touch.pointCount = 0]

\* The prologue of PollInputEvents: the previous snapshot, the forced clear of the
\* slots marked resetNextFrame, the point count.
PollPrologue(w) ==
    LET T == w.CORE.Input.Touch
        F == w.platform.touch.fingers
    IN  [w EXCEPT
           !.CORE.Input.Touch.previousTouchState = T.currentTouchState,
           !.CORE.Input.Touch.currentTouchState =
               [i \in Slots |-> IF F[i].resetNextFrame THEN 0 ELSE T.currentTouchState[i]],
           !.platform.touch.fingers =
               [i \in Slots |-> [F[i] EXCEPT !.resetNextFrame = FALSE]],
           !.CORE.Input.Mouse.previousPosition = w.CORE.Input.Mouse.currentPosition,
           !.CORE.Input.Touch.pointCount = 0]

\* mutant of SyncBit: every release is delayed by one frame
SyncBit_AlwaysDelayed(f, cur, prev) ==
    IF f.state = FINGER_STATE_TOUCHING THEN 1
    ELSE IF f.state = FINGER_STATE_REMOVING THEN 1
    ELSE cur

\* The current-state bit of slot i after a synchronization frame
SyncBit(f, cur, prev) ==
    IF f.state = FINGER_STATE_TOUCHING THEN 1
    ELSE IF f.state = FINGER_STATE_REMOVING THEN (IF prev = 0 THEN 1 ELSE 0)
    ELSE cur

\* The finger of slot i after a synchronization frame
SyncFinger(f, prev) ==
    IF f.state = FINGER_STATE_REMOVING
    THEN [f EXCEPT !.state = FINGER_STATE_REMOVED,
                   !.resetNextFrame = IF prev = 0 THEN TRUE ELSE @]
    ELSE f

\* A synchronization frame: completed events are exposed to the library.
SyncReport(w) ==
    LET T == w.CORE.Input.Touch
        F == w.platform.touch.fingers
    IN  [w EXCEPT
           !.CORE.Input.Touch.position =
               [i \in Slots |-> IF F[i].state = FINGER_STATE_TOUCHING
                                THEN [x |-> F[i].x, y |-> F[i].y]
                                ELSE T.position[i]],
           !.CORE.Input.Touch.currentTouchState =
               [i \in Slots |->
                   SyncBit(F[i], T.currentTouchState[i], T.previousTouchState[i])],
           !.CORE.Input.Mouse.currentPosition =
               IF F[0].state = FINGER_STATE_TOUCHING
               THEN [x |-> F[0].x, y |-> F[0].y]
               ELSE @,
           !.platform.touch.fingers =
               [i \in Slots |-> SyncFinger(F[i], T.previousTouchState[i])]]

\* A raw EV_ABS event, applied to the finger of the current slot s
AbsEvent(w, s, e) ==
    IF e.code = "ABS_MT_TRACKING_ID"
    THEN [w EXCEPT !.platform.touch.fingers[s].state =
                       IF e.value = -1 THEN FINGER_STATE_REMOVING
                       ELSE FINGER_STATE_TOUCHING]
    ELSE IF e.code = "ABS_MT_POSITION_X"
    THEN [w EXCEPT !.platform.touch.fingers[s].y =
                       TransformY(w.platform.canonical_zero,
                                  w.CORE.Window.screen.height, e.value)]
    ELSE IF e.code = "ABS_MT_POSITION_Y"
    THEN [w EXCEPT !.platform.touch.fingers[s].x =
                       TransformX(w.platform.canonical_zero,
                                  w.CORE.Window.screen.width, e.value)]
    ELSE w

\* The integer of a FingerState enumerator.
FingerStateValue(st) ==
    IF st = FINGER_STATE_REMOVED THEN 0 ELSE IF st = FINGER_STATE_REMOVING THEN 1 ELSE 2

\* The EV_ABS branch while slot is not an index of platform.touch.fingers: the store
\* to fingers[s] lands outside the array, which is undefined. The outcomes: nothing
\* the program holds changes, or the member that follows the array in memory holds
\* the value stored (touch.fd follows fingers; drm.fd follows touch).
AbsEventOutside(w, s, e) ==
    IF e.code = "ABS_MT_TRACKING_ID"
    THEN {w, [w EXCEPT !.platform.touch.fd =
                 FingerStateValue(IF e.value = -1 THEN FINGER_STATE_REMOVING
                                  ELSE FINGER_STATE_TOUCHING)]}
    ELSE IF e.code = "ABS_MT_POSITION_X"
    THEN {w, [w EXCEPT !.platform.drm.fd =
                 TransformY(w.platform.canonical_zero,
                            w.CORE.Window.screen.height, e.value)]}
    ELSE IF e.code = "ABS_MT_POSITION_Y"
    THEN {w, [w EXCEPT !.platform.drm.fd =
                 TransformX(w.platform.canonical_zero,
                            w.CORE.Window.screen.width, e.value)]}
    ELSE {w}

\* mutant of CountTouching: the slots reported active are counted
CountTouching_ActiveBits(w) ==
    Cardinality({i \in Slots : w.CORE.Input.Touch.currentTouchState[i] = 1})

\* The point count: the fingers left on the screen after all events
CountTouching(w) ==
    Cardinality({i \in Slots : w.platform.touch.fingers[i].state = FINGER_STATE_TOUCHING})

\* PollInputEvents is entered.
PollBegin ==
    /\ phase = "ready"
    /\ pc = "idle"
    /\ Commit(PollPrologue(World))
    /\ pc' = "drain"
    /\ last' = "PollInputEvents"
    /\ UNCHANGED <<slot, phase, power>>

\* One iteration of the drain loop: read() returned the record e.
ReadEvent(e) ==
    /\ pc = "drain"
    /\ IF e.type = "EV_SYN"
       THEN Commit(SyncReport(World)) /\ slot' = slot
       ELSE IF e.type = "EV_ABS"
       THEN IF e.code = "ABS_MT_SLOT"
            THEN slot' = e.value /\ Commit(World)
            ELSE IF slot \in Slots
            THEN Commit(AbsEvent(World, slot, e)) /\ slot' = slot
            ELSE \E w \in AbsEventOutside(World, slot, e) : Commit(w) /\ slot' = slot
       ELSE Commit(World) /\ slot' = slot
    /\ UNCHANGED <<pc, phase, last, power>>

\* read() returned no (complete) record: the loop ends, the fingers are counted and
\* PollInputEvents returns.
PollEnd ==
    /\ pc = "drain"
    /\ Commit([World EXCEPT !.CORE.Input.Touch.pointCount = @ + CountTouching(World)])
    /\ pc' = "idle"
    /\ UNCHANGED <<slot, phase, last, power>>

\* The state in which the render loop starts: InitPlatform has returned 0. The
\* content of the som_id file is one of soms; the other inputs are those of a boot
\* without failure.
BootInputs(soms) ==
    {in \in InitInputs :
        /\ in.drm = "none" /\ in.egl = 0 /\ in.touchOpen /\ in.som \in soms
        /\ in.bo = 1 /\ in.addOk /\ in.id = 1 /\ in.modeValid /\ in.bufferBound
        /\ in.setCrtcOk /\ in.bl = 0 /\ in.ccOk}

BootedWith(soms) ==
    /\ \E in \in BootInputs(soms) :
          LET r == InitPlatformFn(ZeroWorld, in)
          IN  r.ret = 0 /\ Is(r.w)
    /\ slot = 0
    /\ pc = "idle"
    /\ phase = "ready"
    /\ last = "InitPlatform"
    /\ power = ZeroPower

\* any orientation
Booted == BootedWith(SomIds)

\* the orientation of a device without som_id file; the streams without position
\* events never read the orientation
BootedPlain == BootedWith({"absent"})

----------------------------------------------------------------------------
(* Observers of the touch stream. An observer records, beside the program, what  *)
(* a property needs to know of the events read so far; it changes no variable   *)
(* of the program.                                                              *)

IsTracking(e) == e.type = "EV_ABS" /\ e.code = "ABS_MT_TRACKING_ID"
IsBegin(e) == IsTracking(e) /\ e.value # -1
IsEnd(e) == IsTracking(e) /\ e.value = -1
IsSync(e) == e.type = "EV_SYN"

CurBit(i) == CORE.Input.Touch.currentTouchState[i]
PrevBit(i) == CORE.Input.Touch.previousTouchState[i]
Finger(i) == platform.touch.fingers[i]
PointCount == CORE.Input.Touch.pointCount

\* the events of a stream without positions
TouchEvents == {EvSyn, EvBegin, EvEnd, EvOther} \cup {EvSlot(s) : s \in Slots}

----------------------------------------------------------------------------
(* Specification SpecTouch: one slot observed through taps and releases      *)
(*                                                                         *)
(* obs.w       the slot observed, any slot, fixed for the run              *)
(* obs.batch   the tracking events of slot w in the batch being drained    *)
(*             (since the last synchronization frame): "none", "begin"     *)
(*             (the last one is a begin), "tap" (a begin, then an end      *)
(*             last)                                                       *)
(* obs.synth   a synchronization frame of this poll closed a batch with    *)
(*             obs.batch = "tap" while the previous bit of w was 0         *)
(* obs.synthPrev  obs.synth of the poll before                             *)
(* obs.any     this poll has read an event                                 *)
(* obs.rel     the tracking events of slot w in this poll: "none", "end"   *)
(*             (ends only, the last not yet followed by a synchronization  *)
(*             frame), "synced" (ends only, all followed by one), "begin"  *)
(*             (a begin among them)                                        *)

TouchObsInit ==
    obs \in [w : Slots, batch : {"none"}, synth : {FALSE}, synthPrev : {FALSE},
             any : {FALSE}, rel : {"none"}]

TouchObsBegin ==
    obs' = [obs EXCEPT !.synthPrev = obs.synth, !.synth = FALSE, !.any = FALSE,
                       !.rel = "none"]

TouchObsRead(e) ==
    LET mine == slot = obs.w
    IN  obs' = [obs EXCEPT
          !.any = TRUE,
          !.batch = IF IsSync(e) THEN "none"
                    ELSE IF mine /\ IsBegin(e) THEN "begin"
                    ELSE IF mine /\ IsEnd(e) /\ @ # "none" THEN "tap"
                    ELSE @,
          !.synth = @ \/ (IsSync(e) /\ obs.batch = "tap" /\ PrevBit(obs.w) = 0),
          !.rel = IF mine /\ IsBegin(e) THEN "begin"
                  ELSE IF mine /\ IsEnd(e) /\ @ # "begin" THEN "end"
                  ELSE IF IsSync(e) /\ @ = "end" THEN "synced"
                  ELSE @]

TouchPollBegin == PollBegin /\ TouchObsBegin
TouchReadEvent == \E e \in TouchEvents : ReadEvent(e) /\ TouchObsRead(e)
TouchPollEnd == PollEnd /\ UNCHANGED obs

NextTouch == TouchPollBegin \/ TouchReadEvent \/ TouchPollEnd

\* The render loop polling the touch device, any stream of tracking, slot and
\* synchronization events.
InitTouch == BootedPlain /\ TouchObsInit

SpecTouch == InitTouch /\ [][NextTouch]_vars

\* C3: when a poll has returned in which a synchronization frame closed a batch with
\* a begin and then an end of slot w, the previous bit of w being 0, the bit of w is
\* 1; when the poll after such a poll has returned without having read any event,
\* the bit of w is 0.
C3_SyntheticOneFrameTouch ==
    pc = "idle" =>
        /\ obs.synth => CurBit(obs.w) = 1
        /\ (obs.synthPrev /\ ~obs.any) => CurBit(obs.w) = 0

\* C3 witness: the poll after a synthetic frame has returned without reading an
\* event.
C3_Witness ==
    pc = "idle" /\ obs.synthPrev /\ ~obs.any /\ PrevBit(obs.w) = 1

\* C4: when a poll has returned in which slot w, active in the frame before, received
\* tracking ends and no begin, each end followed by a synchronization frame, the bit
\* of w is 0, its resetNextFrame is not set and its state is REMOVED.
C4_NormalRelease ==
    (pc = "idle" /\ obs.rel = "synced" /\ PrevBit(obs.w) = 1) =>
        /\ CurBit(obs.w) = 0
        /\ ~Finger(obs.w).resetNextFrame
        /\ Finger(obs.w).state = FINGER_STATE_REMOVED

\* C4 witness: such a poll has returned.
C4_Witness ==
    pc = "idle" /\ obs.rel = "synced" /\ PrevBit(obs.w) = 1

\* C21 (as claimed): when PollInputEvents has returned, no slot is in state
\* REMOVING, whatever records the poll drained.
C21_RemovingTransient ==
    pc = "idle" => \A i \in Slots : Finger(i).state # FINGER_STATE_REMOVING

\* the slots in state TOUCHING
TouchingSlots == {i \in Slots : Finger(i).state = FINGER_STATE_TOUCHING}

\* slot i is reported active by the same-frame rule only
IsSynthetic(i) ==
    /\ CurBit(i) = 1
    /\ Finger(i).resetNextFrame
    /\ Finger(i).state = FINGER_STATE_REMOVED

\* C23: when PollInputEvents has returned, pointCount is the number of slots in
\* state TOUCHING, and it counts no slot that is active by the same-frame rule only.
C23_PointCountIsTouching ==
    (pc = "idle" /\ last = "PollInputEvents") =>
        /\ PointCount = Cardinality(TouchingSlots)
        /\ PointCount <= Cardinality({i \in Slots : ~IsSynthetic(i)})

\* C23 witness: a poll has returned with one slot TOUCHING and another active by the
\* same-frame rule only, and the count is 1.
C23_Witness ==
    /\ pc = "idle" /\ last = "PollInputEvents"
    /\ \E i, j \in Slots : IsSynthetic(i) /\ j \in TouchingSlots
    /\ PointCount = 1

----------------------------------------------------------------------------
(* Specification SpecContact: the visibility of the contacts of one slot     *)
(*                                                                         *)
(* obs.w       the slot observed                                           *)
(* obs.any     this poll has read an event                                 *)
(* obs.open    slot w has a contact: a begin was read and no end since     *)
(* obs.clean   every end read for slot w ended a contact (the stream       *)
(*             follows the slot protocol of the device)                    *)
(* obs.unseen  the last contact of slot w, as long as no frame published   *)
(*             since its begin had bit 1: "no" (there is none), "begun",   *)
(*             "ended", "final" (ended and closed by a synchronization     *)
(*             frame)                                                      *)

ContactObsInit ==
    obs \in [w : Slots, any : {FALSE}, open : {FALSE}, clean : {TRUE}, unseen : {"no"}]

ContactObsRead(e) ==
    LET mine == slot = obs.w
    IN  obs' = [obs EXCEPT
          !.any = TRUE,
          !.open = IF mine /\ IsBegin(e) THEN TRUE
                   ELSE IF mine /\ IsEnd(e) THEN FALSE ELSE @,
          !.clean = @ /\ ~(mine /\ IsEnd(e) /\ ~obs.open),
          !.unseen = IF mine /\ IsBegin(e) THEN "begun"
                     ELSE IF mine /\ IsEnd(e) /\ @ = "begun" THEN "ended"
                     ELSE IF IsSync(e) /\ @ = "ended" THEN "final"
                     ELSE @]

\* a frame is published
ContactObsEnd ==
    obs' = [obs EXCEPT !.unseen =
               IF CORE'.Input.Touch.currentTouchState[obs.w] = 1 THEN "no" ELSE @]

ContactPollBegin == PollBegin /\ obs' = [obs EXCEPT !.any = FALSE]
ContactReadEvent == \E e \in TouchEvents : ReadEvent(e) /\ ContactObsRead(e)
ContactPollEnd == PollEnd /\ ContactObsEnd

NextContact == ContactPollBegin \/ ContactReadEvent \/ ContactPollEnd

InitContact == BootedPlain /\ ContactObsInit

SpecContact == InitContact /\ [][NextContact]_vars

\* C6 (as claimed): every contact of slot w that began, ended and was closed by a
\* synchronization frame is shown with bit 1 in a frame published since its begin:
\* in a stream that follows the slot protocol no poll that read nothing returns
\* while such a contact is still unseen (from there on no frame shows it unless new
\* events arrive).
C6_EveryContactVisible ==
    (pc = "idle" /\ ~obs.any /\ obs.clean) => obs.unseen # "final"

----------------------------------------------------------------------------
(* Specification SpecScenario: three consecutive polls P1, P2, P3 with slot 0 *)
(* touching throughout and a tap of slot 1 in P2                            *)
(*                                                                         *)
(* obs.held    since this poll was entered slot 0 has been TOUCHING and    *)
(*             has received no tracking event, and no slot but 0 and 1 has *)
(*             been touched                                                *)
(* obs.pre1    when this poll was entered slot 1 was REMOVED with bit 0    *)
(*             and no forced clear pending                                 *)
(* obs.act1    the tracking events of slot 1 in this poll: "none",         *)
(*             "begin", "end" (a begin, then an end, in one batch), "tap"  *)
(*             (that batch closed by a synchronization frame), "other"     *)
(* obs.ph      the polls returned last were P1 (1), P1 P2 (2), P1 P2 P3    *)
(*             (3), or none of these (0)                                   *)

OthersIdle ==
    \A i \in Slots \ {0, 1} : Finger(i).state = FINGER_STATE_REMOVED /\ CurBit(i) = 0

Slot1Idle ==
    /\ Finger(1).state = FINGER_STATE_REMOVED
    /\ CurBit(1) = 0
    /\ ~Finger(1).resetNextFrame

ScenarioObsInit ==
    obs = [held |-> FALSE, pre1 |-> FALSE, act1 |-> "none", ph |-> 0]

ScenarioObsBegin ==
    obs' = [obs EXCEPT
              !.held = Finger(0).state = FINGER_STATE_TOUCHING /\ OthersIdle,
              !.pre1 = Slot1Idle,
              !.act1 = "none"]

ScenarioObsRead(e) ==
    obs' = [obs EXCEPT
              !.held = @ /\ ~(IsTracking(e) /\ slot # 1),
              !.act1 = IF slot = 1 /\ IsBegin(e)
                       THEN (IF @ = "none" THEN "begin" ELSE "other")
                       ELSE IF slot = 1 /\ IsEnd(e)
                       THEN (IF @ = "begin" THEN "end" ELSE "other")
                       ELSE IF IsSync(e)
                       THEN (IF @ = "end" THEN "tap"
                             ELSE IF @ = "begin" THEN "other" ELSE @)
                       ELSE @]

\* the poll returns: which poll of the scenario it was
ScenarioObsEnd ==
    LET isP1 == obs.held /\ obs.pre1 /\ obs.act1 = "none"
        isP2 == obs.ph \in {1, 3} /\ obs.held /\ obs.pre1 /\ obs.act1 = "tap"
        isP3 == obs.ph = 2 /\ obs.held /\ obs.act1 = "none"
    IN  obs' = [obs EXCEPT !.ph = IF isP2 THEN 2 ELSE IF isP3 THEN 3
                                  ELSE IF isP1 THEN 1 ELSE 0]

ScenarioPollBegin == PollBegin /\ ScenarioObsBegin
ScenarioReadEvent == \E e \in TouchEvents : ReadEvent(e) /\ ScenarioObsRead(e)
ScenarioPollEnd == PollEnd /\ ScenarioObsEnd

NextScenario == ScenarioPollBegin \/ ScenarioReadEvent \/ ScenarioPollEnd

InitScenario == BootedPlain /\ ScenarioObsInit

SpecScenario == InitScenario /\ [][NextScenario]_vars

\* C5 (as claimed): the point counts published by P1, P2, P3 are 1, 2, 1.
C5_PointCounts121 ==
    pc = "idle" =>
        /\ obs.ph = 1 => PointCount = 1
        /\ obs.ph = 2 => PointCount = 2
        /\ obs.ph = 3 => PointCount = 1

\* C5 (amended): the point counts published by P1, P2, P3 are 1, 1, 1: the slot
\* that is reported active only for its synthetic frame is not counted.
C5_PointCounts111 ==
    pc = "idle" =>
        /\ obs.ph = 1 => PointCount = 1
        /\ obs.ph = 2 => PointCount = 1 /\ CurBit(1) = 1
        /\ obs.ph = 3 => PointCount = 1 /\ CurBit(1) = 0

\* C5 witness: the third poll of the scenario has returned.
C5_Witness ==
    pc = "idle" /\ obs.ph = 3

----------------------------------------------------------------------------
(* Specification SpecPos: positions of the contact of slot 0, both           *)
(* orientations                                                            *)
(*                                                                         *)
(* obs.event   the record read() returned last in this poll                *)

PosEvents ==
    {EvSyn, EvBegin}
    \cup {EvPosX(v) : v \in 0 .. ScreenHeight}
    \cup {EvPosY(v) : v \in 0 .. ScreenWidth}

PosObsInit == obs = [event |-> NoEvent]

PosPollBegin == PollBegin /\ obs' = [event |-> NoEvent]
PosReadEvent == \E e \in PosEvents : ReadEvent(e) /\ obs' = [event |-> e]
PosPollEnd == PollEnd /\ obs' = [event |-> NoEvent]

NextPos == PosPollBegin \/ PosReadEvent \/ PosPollEnd

InitPos == Booted /\ PosObsInit

SpecPos == InitPos /\ [][NextPos]_vars

\* C7: after a raw ABS_MT_POSITION_Y event of value v the x of the current slot is
\* v when canonical_zero is false and width - v when it is true.
C7_ReportedX ==
    obs.event.code = "ABS_MT_POSITION_Y" =>
        Finger(slot).x = IF platform.canonical_zero
                         THEN CORE.Window.screen.width - obs.event.value
                         ELSE obs.event.value

\* C7 witness: the inverted orientation and the boundary value v = width, stored
\* as x = 0.
C7_Witness ==
    /\ obs.event = EvPosY(CORE.Window.screen.width)
    /\ platform.canonical_zero
    /\ Finger(slot).x = 0

\* C8 (as claimed): after a raw ABS_MT_POSITION_X event of value v the y of the
\* current slot is v when canonical_zero is false and height - v when it is true.
C8_ReportedY_Claimed ==
    obs.event.code = "ABS_MT_POSITION_X" =>
        Finger(slot).y = IF platform.canonical_zero
                         THEN CORE.Window.screen.height - obs.event.value
                         ELSE obs.event.value

\* C8 (amended): after a raw ABS_MT_POSITION_X event of value v the y of the current
\* slot is height - v when canonical_zero is false and v when it is true.
C8_ReportedY ==
    obs.event.code = "ABS_MT_POSITION_X" =>
        Finger(slot).y = IF platform.canonical_zero
                         THEN obs.event.value
                         ELSE CORE.Window.screen.height - obs.event.value

\* C8 witness: the default orientation and the boundary value v = 0, stored as
\* y = height.
C8_Witness ==
    /\ obs.event = EvPosX(0)
    /\ ~platform.canonical_zero
    /\ Finger(slot).y = CORE.Window.screen.height

----------------------------------------------------------------------------
(* Specification SpecSnap: each poll compared with the snapshot published    *)
(* before it                                                               *)
(*                                                                         *)
(* obs.polled  a poll has begun                                            *)
(* obs.any     this poll has read an event                                 *)
(* obs.cur     currentTouchState when this poll was entered                *)
(* obs.seen    what else was published, and the resetNextFrame flags, when *)
(*             this poll was entered; dropped (<< >>) when the poll reads  *)
(*             an event                                                    *)

\* what the library sees beside the bitmap, and the marks of the forced clear
Published ==
    [ position |-> CORE.Input.Touch.position,
      mouse |-> CORE.Input.Mouse.currentPosition,
      reset |-> [i \in Slots |-> Finger(i).resetNextFrame] ]

\* the events of SpecSnap: those of TouchEvents and a position of the contact of
\* slot 0, the one mapped on the mouse
SnapEvents == TouchEvents \cup {EvPosX(0)}

SnapObsInit ==
    obs = [polled |-> FALSE, any |-> FALSE, cur |-> CORE.Input.Touch.currentTouchState,
           seen |-> << >>]

SnapObsBegin ==
    obs' = [polled |-> TRUE, any |-> FALSE, cur |-> CORE.Input.Touch.currentTouchState,
            seen |-> Published]

SnapObsRead == obs' = [obs EXCEPT !.any = TRUE, !.seen = << >>]

SnapPollBegin == PollBegin /\ SnapObsBegin
SnapReadEvent ==
    \E e \in SnapEvents :
        /\ e.code = "ABS_MT_POSITION_X" => slot = 0
        /\ ReadEvent(e)
        /\ SnapObsRead
SnapPollEnd == PollEnd /\ UNCHANGED obs

NextSnap == SnapPollBegin \/ SnapReadEvent \/ SnapPollEnd

InitSnap == BootedPlain /\ SnapObsInit

SpecSnap == InitSnap /\ [][NextSnap]_vars

\* a poll has returned that read no event
EmptyPollReturned == pc = "idle" /\ obs.polled /\ ~obs.any

\* C22 (as claimed): when a poll that read no event has returned, every bit of
\* currentTouchState, every published position and the mouse position are what they
\* were when the poll was entered.
C22_EmptyPollNoChange_Claimed ==
    EmptyPollReturned =>
        /\ \A i \in Slots : CurBit(i) = obs.cur[i]
        /\ CORE.Input.Touch.position = obs.seen.position
        /\ CORE.Input.Mouse.currentPosition = obs.seen.mouse

\* C22 (amended): when a poll that read no event has returned, the bit of every slot
\* that was marked resetNextFrame is 0, every other bit of currentTouchState, every
\* published position and the mouse position are what they were when the poll was
\* entered.
C22_EmptyPollNoChange ==
    EmptyPollReturned =>
        /\ \A i \in Slots : CurBit(i) = IF obs.seen.reset[i] THEN 0 ELSE obs.cur[i]
        /\ CORE.Input.Touch.position = obs.seen.position
        /\ CORE.Input.Mouse.currentPosition = obs.seen.mouse

\* C22 witness: a poll that read no event has returned and has cleared a bit that was
\* 1, and left a bit that was 1.
C22_Witness ==
    /\ EmptyPollReturned
    /\ \E i, j \in Slots :
          /\ obs.seen.reset[i] /\ obs.cur[i] = 1 /\ CurBit(i) = 0
          /\ ~obs.seen.reset[j] /\ obs.cur[j] = 1 /\ CurBit(j) = 1

\* C24: when a poll has returned, whatever it read, every bit of previousTouchState
\* is the bit of currentTouchState the poll before had published.
C24_PreviousIsLastPublished ==
    (pc = "idle" /\ obs.polled) => \A i \in Slots : PrevBit(i) = obs.cur[i]

\* C24 witness: a poll that read events has returned; a slot had bit 1 published
\* before the poll, which is its previous bit now, and its current bit is 0.
C24_Witness ==
    /\ pc = "idle" /\ obs.polled /\ obs.any
    /\ \E i \in Slots : obs.cur[i] = 1 /\ PrevBit(i) = 1 /\ CurBit(i) = 0

----------------------------------------------------------------------------
(* Specification SpecSlot: streams whose slot-select records carry any value *)
(*                                                                         *)
(* obs.outside  a tracking or position record was applied while slot was   *)
(*              not an index of the slot table                             *)

\* The values a slot-select record carries: the indices of the table, the one below
\* and the one above.
SlotValues == -1 .. MAX_TOUCH_POINTS

SlotEvents == {EvSyn, EvBegin, EvEnd, EvPosX(0)} \cup {EvSlot(s) : s \in SlotValues}

IsSlotSelect(e) == e.type = "EV_ABS" /\ e.code = "ABS_MT_SLOT"

SlotObsInit == obs = [outside |-> FALSE]

SlotObsRead(e) ==
    obs' = [obs EXCEPT !.outside =
               @ \/ (e.type = "EV_ABS" /\ ~IsSlotSelect(e) /\ slot \notin Slots)]

SlotPollBegin == PollBegin /\ UNCHANGED obs
SlotReadEvent == \E e \in SlotEvents : ReadEvent(e) /\ SlotObsRead(e)
SlotPollEnd == PollEnd /\ UNCHANGED obs

NextSlot == SlotPollBegin \/ SlotReadEvent \/ SlotPollEnd

InitSlot == BootedPlain /\ SlotObsInit

SpecSlot == InitSlot /\ [][NextSlot]_vars

\* C26 (as claimed): no tracking or position record is applied while slot is outside
\* 0 .. MAX_TOUCH_POINTS - 1, and the descriptors stored next to the slot table keep
\* the values InitPlatform gave them.
C26_SlotWithinTable ==
    /\ ~obs.outside
    /\ platform.touch.fd = TOUCH_FD
    /\ platform.drm.fd = DRM_FD

----------------------------------------------------------------------------
(* Specification SpecLive: a contact that is down, in streams that polls     *)
(* drain batch by batch                                                    *)
(*                                                                         *)
(* obs.w      the slot observed                                            *)
(* obs.live   the last synchronization frame read found slot w TOUCHING    *)
(*            and no tracking end of slot w was read since                 *)
(* obs.tail   the last record this poll read is a synchronization frame,   *)
(*            or it has read none                                          *)
(* obs.whole  every poll that has returned ended on obs.tail: no poll was  *)
(*            cut inside a batch                                           *)
(* obs.clean  every tracking end read addressed a slot that was TOUCHING   *)
(*            (the stream ends only contacts it began)                     *)

LiveObsInit ==
    obs \in [w : Slots, live : {FALSE}, tail : {TRUE}, whole : {TRUE}, clean : {TRUE}]

LiveObsRead(e) ==
    obs' = [obs EXCEPT
              !.live = IF IsSync(e) THEN Finger(obs.w).state = FINGER_STATE_TOUCHING
                       ELSE IF slot = obs.w /\ IsEnd(e) THEN FALSE
                       ELSE @,
              !.tail = IsSync(e),
              !.clean = @ /\ (IsEnd(e) => Finger(slot).state = FINGER_STATE_TOUCHING)]

LivePollBegin == PollBegin /\ obs' = [obs EXCEPT !.tail = TRUE]
LiveReadEvent == \E e \in TouchEvents : ReadEvent(e) /\ LiveObsRead(e)
LivePollEnd == PollEnd /\ obs' = [obs EXCEPT !.whole = @ /\ obs.tail]

NextLive == LivePollBegin \/ LiveReadEvent \/ LivePollEnd

InitLive == BootedPlain /\ LiveObsInit

SpecLive == InitLive /\ [][NextLive]_vars

\* C27 (as claimed): when a poll has returned, in a stream that ends only contacts it
\* began and is drained batch by batch, and the last synchronization frame found slot w TOUCHING with no tracking end of
\* w since, the bit of w in currentTouchState is 1.
C27_LiveContactActive ==
    (pc = "idle" /\ obs.whole /\ obs.clean /\ obs.live) => CurBit(obs.w) = 1

\* C28 (as claimed): when a poll has returned, in a stream that ends only contacts it
\* began and is drained batch by batch, pointCount is at most the number of slots whose bit in currentTouchState is 1.
C28_CountWithinActiveBits ==
    (pc = "idle" /\ last = "PollInputEvents" /\ obs.whole /\ obs.clean) =>
        PointCount <= Cardinality({i \in Slots : CurBit(i) = 1})

----------------------------------------------------------------------------
(* Properties of the swapchain and of the lifecycle (specification Spec) *)

HeldBuffers == {platform.gbm.current_bo, platform.gbm.next_bo} \ {NULL}

\* the buffer the last SwapScreenBuffer call acquired (its first library call)
Acquired == calls[1].arg

CallCount(op, arg) ==
    Cardinality({i \in DOMAIN calls : calls[i].op = op /\ calls[i].arg = arg})

HasCall(op) == \E i \in DOMAIN calls : calls[i].op = op

\* C1: when a SwapScreenBuffer call has returned, whatever step of it failed,
\* current_bo and next_bo together reference at most one buffer.
C1_AtMostOneBufferHeld ==
    last = "SwapScreenBuffer" => Cardinality(HeldBuffers) <= 1

\* C1 witness: a present whose page flip failed has returned while a buffer is
\* displayed, and one buffer is held.
C1_Witness ==
    /\ last = "SwapScreenBuffer"
    /\ HasCall("rmfb")
    /\ Cardinality(HeldBuffers) = 1

\* C2: when a SwapScreenBuffer call that acquired a buffer has returned, that buffer
\* is either current_bo and was not released by the call, or it is not current_bo
\* and the call released it exactly once.
C2_AcquiredPromotedOrReleased ==
    (last = "SwapScreenBuffer" /\ Acquired # NULL) =>
        \/ /\ platform.gbm.current_bo = Acquired
           /\ CallCount("release", Acquired) = 0
           /\ Acquired \in locked
        \/ /\ platform.gbm.current_bo # Acquired
           /\ CallCount("release", Acquired) = 1
           /\ Acquired \notin locked

\* C2 witness: a present acquired a buffer, its page flip failed, and the buffer is
\* back in the pool.
C2_Witness ==
    /\ last = "SwapScreenBuffer"
    /\ Acquired # NULL
    /\ HasCall("rmfb")
    /\ Acquired \notin locked

\* C9 (as claimed): ClosePlatform after a failed InitPlatform destroys, releases and
\* closes only handles the platform layer created.
C9_CloseOnlyWhatWasCreated ==
    phase = "closed_failed" => \A i \in DOMAIN calls : calls[i].ok

Owners(b) ==
    (IF b \notin locked THEN {"pool"} ELSE {})
    \cup (IF platform.gbm.current_bo = b THEN {"current"} ELSE {})
    \cup (IF platform.gbm.next_bo = b THEN {"next"} ELSE {})

\* C10 (as claimed): in every state each buffer has exactly one owner among the
\* free pool, current_bo and next_bo.
C10_ExclusiveOwnership ==
    \A b \in Buffers : Cardinality(Owners(b)) = 1

\* C11 (as claimed): when a SwapScreenBuffer call has returned, on whatever path,
\* next_bo references no buffer.
C11_NextEmptyAfterPresent ==
    last = "SwapScreenBuffer" => platform.gbm.next_bo = NULL

\* C12 (as claimed): when ClosePlatform has returned, every buffer the program
\* locked, in init_screen or in a SwapScreenBuffer call, is back in the pool.
C12_AllBuffersReleasedAtShutdown ==
    phase \in {"closed", "closed_failed"} => locked = {}

\* the step is a SwapScreenBuffer call that returned without a page flip queued
FailedPresentStep ==
    /\ last' = "SwapScreenBuffer"
    /\ calls' # << >>
    /\ \A i \in DOMAIN calls' : calls'[i].op # "pageflip"

FirstCall(op) ==
    IF HasCall(op) THEN CHOOSE i \in DOMAIN calls :
                           calls[i].op = op /\ \A j \in 1 .. i - 1 : calls[j].op # op
    ELSE 0

\* C14 (as claimed): when InitPlatform has returned after open_with_retry failed
\* to open one of the backlight files, it has returned 0 and the window is ready.
C14_BacklightFailureTolerated ==
    (last = "InitPlatform"
       /\ \E i \in DOMAIN calls : calls[i].op = "open_with_retry" /\ ~calls[i].ok)
    => (phase = "ready" /\ CORE.Window.ready)

\* init_touch found no som_id file, or one fscanf could not convert
SomIdAbsent == \E i \in DOMAIN calls : calls[i].op = "fopen_som_id" /\ calls[i].arg = 0
SomIdUnparsable == \E i \in DOMAIN calls : calls[i].op = "fscanf_som_id" /\ calls[i].arg = 0

\* C15 (as claimed): when InitPlatform has returned after init_touch found the
\* som_id file absent or unparsable, canonical_zero is false and init_touch has
\* succeeded: the touch table is initialised and InitPlatform went on to init_screen.
C15_OrientationFileTolerated ==
    (last = "InitPlatform" /\ (SomIdAbsent \/ SomIdUnparsable)) =>
        /\ ~platform.canonical_zero
        /\ \A i \in Slots : platform.touch.fingers[i] = InitFinger
        /\ HasCall("lock")

\* the object each create call of init_egl makes
Creator ==
    [ gbm_device |-> "gbm_create_device", egl_display |-> "eglGetDisplay",
      gbm_surface |-> "gbm_surface_create", egl_surface |-> "eglCreateWindowSurface",
      egl_context |-> "eglCreateContext" ]

IsDestroy(c) == c.op \in DOMAIN Creator

\* C17 (as claimed): when ClosePlatform has returned after a complete
\* initialisation, it has destroyed every object init_egl created, in the reverse of
\* the order of creation, and has made its release call before any destroy call.
C17_ReverseOrderTeardown ==
    phase = "closed" =>
        /\ \A obj \in DOMAIN Creator : HasCall(obj)
        /\ \A i, j \in DOMAIN calls :
              (i < j /\ IsDestroy(calls[i]) /\ IsDestroy(calls[j])) =>
                  EglIndex(Creator[calls[i].op]) > EglIndex(Creator[calls[j].op])
        /\ \A i, j \in DOMAIN calls :
              (calls[i].op = "release" /\ IsDestroy(calls[j])) => i < j

\* C18: when a SwapScreenBuffer call has returned, every release it made of a buffer
\* other than the acquired one came after its page flip and after its wait for the
\* vblank, in this order, and the acquired buffer is current_bo and was not released.
C18_ReleaseAfterFlipAndVBlank ==
    last = "SwapScreenBuffer" =>
        \A i \in DOMAIN calls :
            (calls[i].op = "release" /\ calls[i].arg # Acquired) =>
                /\ 0 < FirstCall("pageflip")
                /\ FirstCall("pageflip") < FirstCall("vblank")
                /\ FirstCall("vblank") < i
                /\ platform.gbm.current_bo = Acquired
                /\ Acquired \in locked

\* C18 witness: a present has released the buffer displayed before it.
C18_Witness ==
    /\ last = "SwapScreenBuffer"
    /\ \E i \in DOMAIN calls : calls[i].op = "release" /\ calls[i].arg # Acquired

\* what drmModeGetCrtc reported: 3 is a valid mode and a framebuffer
CrtcReport == calls[FirstCall("getcrtc")].arg

\* C19: when InitPlatform has returned after init_screen queried the crtc, the
\* initial buffer is locked and its framebuffer exists, both from before the query;
\* drmModeSetCrtc was called if and only if the crtc did not report both a valid
\* mode and a framebuffer; and when it reported both, turn_screen_on was entered.
C19_ModeSetOnlyWhenUnbound ==
    (last = "InitPlatform" /\ HasCall("getcrtc")) =>
        /\ platform.gbm.current_bo \in locked
        /\ platform.gbm.current_fb \in liveFbs
        /\ 0 < FirstCall("lock") /\ FirstCall("lock") < FirstCall("addfb")
        /\ FirstCall("addfb") < FirstCall("getcrtc")
        /\ HasCall("setcrtc") <=> CrtcReport # 3
        /\ CrtcReport = 3 => HasCall("open_with_retry")

\* C19 witness: InitPlatform has succeeded on a crtc that reported both.
C19_Witness ==
    /\ last = "InitPlatform" /\ HasCall("getcrtc")
    /\ CrtcReport = 3
    /\ phase = "ready"

\* C20 (as claimed): every framebuffer id cached with a buffer, which is what
\* get_or_create_fb_for_bo returns for it, is a framebuffer that exists, and every
\* drmModeRmFB call removes a framebuffer that exists.
C20_CachedFramebufferLive ==
    /\ \A b \in Buffers : userData[b] # 0 => userData[b] \in liveFbs
    /\ \A i \in DOMAIN calls : calls[i].op = "rmfb" => calls[i].ok

\* The stages the last InitPlatform ran, in order, with their status.
StageLog == SelectSeq(calls, LAMBDA c : c.op \in StageNames)
FatalFailed == \E i \in DOMAIN StageLog :
                  StageLog[i].op # "init_color_correction" /\ ~StageLog[i].ok

\* C25: when InitPlatform has returned, the stages it ran are a prefix of drm, egl,
\* touch, screen, color correction, in that order; a fatal stage that failed is the
\* last stage it ran, the status is non-zero and the window is not ready; if no
\* fatal stage failed all five stages ran, the status is 0 and the window is ready,
\* whatever color correction returned. The window is ready in no state before
\* InitPlatform has returned 0.
C25_StopsAtFirstFatalFailure ==
    /\ CORE.Window.ready => phase = "ready"
    /\ last = "InitPlatform" =>
          /\ \A i \in DOMAIN StageLog :
                /\ StageLog[i].op = (FatalStages \o << "init_color_correction" >>)[i]
                /\ (i <= Len(FatalStages) /\ ~StageLog[i].ok) => i = Len(StageLog)
          /\ FatalFailed => (phase = "failed" /\ ~CORE.Window.ready)
          /\ ~FatalFailed => /\ Len(StageLog) = Len(FatalStages) + 1
                             /\ phase = "ready"
                             /\ CORE.Window.ready

\* InitPlatform has returned 0 although color correction failed.
C25_ColorCorrectionFailed ==
    /\ last = "InitPlatform" /\ phase = "ready" /\ CORE.Window.ready
    /\ \E i \in DOMAIN calls : calls[i].op = "init_color_correction" /\ ~calls[i].ok

\* InitPlatform has stopped at a failed touch stage, before the screen stage.
C25_Witness ==
    /\ last = "InitPlatform" /\ phase = "failed" /\ ~CORE.Window.ready
    /\ Len(StageLog) = 3 /\ ~StageLog[3].ok

\* C29 (as claimed): in every reachable state where current_bo is not NULL,
\* current_fb is the framebuffer id of current_bo (the id cached in its user data).
C29_CurrentFbMatchesCurrentBo ==
    platform.gbm.current_bo # NULL =>
        platform.gbm.current_fb = userData[platform.gbm.current_bo]

----------------------------------------------------------------------------
(* Specification SpecRetry: turn_screen_on, one step per iteration of       *)
(* open_with_retry                                                         *)

\* open_with_retry: const int sleep_ms, and the bound of its loop test
sleep_ms == 50
RetryBudgetMs == 500

notPower == <<platform, CORE, slot, pc, phase, locked, userData, liveFbs,
              live, openFds, owned, calls, last, obs>>

\* turn_screen_on calls open_with_retry on the file with index i
CallOpenWithRetry(pw, i) ==
    [pw EXCEPT !.pc = "loop", !.file = i, !.waited = 0, !.attempts = 0, !.slept = 0,
               !.f = "none"]

\* open_with_retry: the loop test, then fopen, which returns a stream or NULL
RetryLoop ==
    /\ power.pc = "loop"
    /\ IF power.waited <= RetryBudgetMs
       THEN \E ok \in BOOLEAN :
               power' = IF ok
                        THEN [power EXCEPT !.attempts = @ + 1, !.f = "stream",
                                           !.pc = "returned"]
                        ELSE [power EXCEPT !.attempts = @ + 1, !.pc = "sleep"]
       ELSE power' = [power EXCEPT !.f = "NULL", !.pc = "returned"]
    /\ UNCHANGED notPower

\* open_with_retry: nanosleep and waited += sleep_ms
RetrySleep ==
    /\ power.pc = "sleep"
    /\ power' = [power EXCEPT !.slept = @ + sleep_ms, !.waited = @ + sleep_ms,
                              !.pc = "loop"]
    /\ UNCHANGED notPower

\* turn_screen_on: open_with_retry has returned. On NULL it returns -1; else it
\* writes bl_power, reads max_brightness (fscanf leaves 0 when it converts nothing)
\* or writes brightness, and goes on.
ScreenOnStep ==
    /\ power.pc = "returned"
    /\ IF power.f = "NULL"
       THEN power' = [power EXCEPT !.pc = "done", !.ret = -1]
       ELSE IF power.file = 1
       THEN power' = CallOpenWithRetry(power, 2)
       ELSE IF power.file = 2
       THEN \E mb \in 0 .. MaxBrightness :
               power' = CallOpenWithRetry([power EXCEPT !.max_brightness = mb], 3)
       ELSE power' = [power EXCEPT !.brightness = power.max_brightness,
                                   !.pc = "done", !.ret = 0]
    /\ UNCHANGED notPower

NextRetry == RetryLoop \/ RetrySleep \/ ScreenOnStep

\* init_screen has called turn_screen_on, which is in its first open_with_retry
InitRetry ==
    /\ Is(ZeroWorld)
    /\ slot = 0
    /\ pc = "idle"
    /\ phase = "start"
    /\ last = "none"
    /\ obs = ZeroObs
    /\ power = CallOpenWithRetry(ZeroPower, 1)

SpecRetry == InitRetry /\ [][NextRetry]_vars

\* C16 (as claimed): when open_with_retry has returned, it has slept sleep_ms after
\* each fopen that failed and before the next attempt only; when it returns a stream
\* it has not slept after the fopen that succeeded; when it returns NULL it has slept
\* at most RetryBudgetMs in all.
C16_RetryWithinBudget ==
    power.pc = "returned" =>
        /\ power.f = "stream" => power.slept = sleep_ms * (power.attempts - 1)
        /\ power.f = "NULL" =>
              /\ power.slept = sleep_ms * power.attempts
              /\ power.slept <= RetryBudgetMs

====
